---- MODULE Spec2Model ----
(***************************************************************************)
(* Model of I2Ctest/I2Ctest.h: the data structures that represent I2C bus  *)
(* transactions and tests.                                                 *)
(*                                                                         *)
(* The header holds no functions.  What it fixes is                        *)
(*   - how the preprocessor arrives at the capacity I2C_limit_brief,       *)
(*   - the field lists of the three structs and the types of the fields,   *)
(*   - and, through the C rules for those types, what a store into a       *)
(*     field, an element store into a buffer and a struct copy do.         *)
(* The model is the translation unit that includes the header and then     *)
(* builds values of the three structs by stores and copies.                *)
(***************************************************************************)
EXTENDS Integers, Sequences, FiniteSets

VARIABLES
  predef,   \* value the build gave I2C_limit_brief before the header (0: none)
  macros,   \* preprocessor macro table; 0 stands for "not defined"
  pc,       \* position of the preprocessor in the header
  cap,      \* number of entries of the array type I2C_data_brief (0: not yet declared)
  gen,      \* one struct I2C_transaction_generic, with the bytes allocated for write[]
  src,      \* one struct I2C_transaction_brief
  tests,    \* a table of struct I2C_test_brief
  copied,   \* history: the table entries whose tx was last set by a struct copy of src
  last,     \* history: the last store, with the value the caller supplied
  ops       \* number of stores, copies and allocations done so far

vars == <<predef, macros, pc, cap, gen, src, tests, copied, last, ops>>

(***************************************************************************)
(* Bounds of the model.                                                    *)
(***************************************************************************)
MaxOps == 3
NTests == 2

TestIds == 1..NTests

\* Values a build may give the macro on its command line (0: it gives none).
Predefined == {0, 8, 16}

\* Values the caller supplies (C int) for an I2C_byte: two that fit, one that does not.
RawBytes == {171, 336}

\* Values the caller supplies (C int) for an I2C_length: negative, small, one past
\* the brief capacity, and the two just outside the 16-bit signed range.
RawLengths == {-32769, -1, 2, 17, 32768}

\* Zero-based element indices the caller stores to: inside a two-byte payload,
\* just past it, and the last entry of a brief buffer.
RawIndices == {1, 2, 15}

\* The inputs of the table of tests: one byte value, the element indices around a
\* two-byte prefix, and a negative, a small and a too large count.
TableBytes == {171}
TableIndices == {1, 2}
TableLengths == {-1, 2, 17}

\* Numbers of payload bytes the caller allocates behind a generic transaction.
AllocSizes == {1, 2}

(***************************************************************************)
(* The scalar types (lines 10-13).                                         *)
(***************************************************************************)
\* typedef unsigned char I2C_byte: conversion of an int is reduction modulo 2^8.
I2C_byte(v) == v % 256

\* typedef int16_t I2C_length: 16 bits, two's complement; an int out of range wraps.
I2C_length_wide(v) == v
I2C_length(v) == LET m == v % 65536 IN IF m >= 32768 THEN m - 65536 ELSE m

I2C_byte_range == 0..255
I2C_length_range == -32768..32767

(***************************************************************************)
(* The capacity (lines 15-21).                                             *)
(***************************************************************************)
I2C_limit_brief == 16

\* #define I2C_limit_brief 16, met with the macro holding prev (0: not defined).
\* The directive is unconditional: whatever prev is, the macro is 16 afterwards.
Define_I2C_limit_brief_ifndef(prev) == IF prev # 0 THEN prev ELSE I2C_limit_brief
Define_I2C_limit_brief(prev) == I2C_limit_brief

\* A redefinition with another replacement list is a constraint violation: the
\* compiler diagnoses it, and either goes on with the new definition or rejects
\* the translation unit.
Conflicts(prev) == prev # 0 /\ prev # I2C_limit_brief

\* typedef I2C_byte I2C_data_brief[I2C_limit_brief]: n entries, here all zero.
I2C_data_brief(n) == [j \in 1..n |-> 0]

(***************************************************************************)
(* The struct layouts: field names and field types, in declaration order.  *)
(***************************************************************************)
I2C_transaction_generic ==
  << [name |-> "addr",    type |-> "I2C_byte"],
     [name |-> "n_write", type |-> "I2C_length"],
     [name |-> "n_read",  type |-> "I2C_length"],
     [name |-> "write",   type |-> "I2C_byte[]"] >>

I2C_transaction_brief_narrow ==
  << [name |-> "addr",    type |-> "I2C_byte"],
     [name |-> "n_write", type |-> "I2C_byte"],
     [name |-> "n_read",  type |-> "I2C_byte"],
     [name |-> "write",   type |-> "I2C_data_brief"] >>
I2C_transaction_brief ==
  << [name |-> "addr",    type |-> "I2C_byte"],
     [name |-> "n_write", type |-> "I2C_length"],
     [name |-> "n_read",  type |-> "I2C_length"],
     [name |-> "write",   type |-> "I2C_data_brief"] >>

I2C_test_brief ==
  << [name |-> "tx",     type |-> "I2C_transaction_brief"],
     [name |-> "expect", type |-> "I2C_data_brief"] >>

ScalarFields == {"addr", "n_write", "n_read"}

FieldType(layout, f) ==
  layout[CHOOSE i \in DOMAIN layout : layout[i].name = f].type

\* Conversion of the caller's int to the type of the field it is stored in.
Convert(ty, v) == IF ty = "I2C_byte" THEN I2C_byte(v) ELSE I2C_length(v)

InType(ty, v) == IF ty = "I2C_byte" THEN v \in I2C_byte_range ELSE v \in I2C_length_range

\* The inputs offered to field f: bytes for a byte field, lengths for a length field.
RawFor(layout, f, bytes, lengths) ==
  IF FieldType(layout, f) = "I2C_byte" THEN bytes ELSE lengths

(***************************************************************************)
(* Objects with static storage duration start zeroed.                      *)
(***************************************************************************)
\* The zero value of a field of the given type, the brief array having n entries.
ZeroField(ty, n) ==
  IF ty = "I2C_data_brief" THEN I2C_data_brief(n)
  ELSE IF ty = "I2C_byte[]" THEN <<>>
  ELSE 0

ZeroStruct(layout, n) ==
  [f \in {layout[i].name : i \in DOMAIN layout} |-> ZeroField(FieldType(layout, f), n)]

ZeroGeneric == ZeroStruct(I2C_transaction_generic, 0)

ZeroBrief(n) == ZeroStruct(I2C_transaction_brief, n)

ZeroTest_literal(n) == [tx |-> ZeroBrief(n), expect |-> I2C_data_brief(8)]
ZeroTest(n) ==
  [f \in {I2C_test_brief[i].name : i \in DOMAIN I2C_test_brief} |->
     IF FieldType(I2C_test_brief, f) = "I2C_transaction_brief"
     THEN ZeroBrief(n)
     ELSE ZeroField(FieldType(I2C_test_brief, f), n)]

(***************************************************************************)
(* Stores.                                                                 *)
(***************************************************************************)
\* obj.f = v for a scalar field of a struct with the given layout.
SetField(layout, obj, f, v) == [obj EXCEPT ![f] = Convert(FieldType(layout, f), v)]

\* buf[i] = v for an array of I2C_byte; i is zero-based and inside the array.
SetElem(buf, i, v) == [buf EXCEPT ![i + 1] = I2C_byte(v)]

InBounds(buf, i) == 0 <= i /\ i < Len(buf)

\* tx.f = v on a brief transaction: the one field changes, the buffer stays.
SetBrief_resizing(tx, f, v) ==
  LET t == SetField(I2C_transaction_brief, tx, f, v)
  IN IF f = "n_write" /\ t.n_write >= 0 /\ t.n_write < Len(tx.write)
     THEN [t EXCEPT !.write = SubSeq(tx.write, 1, t.n_write)]
     ELSE t
SetBrief_checked(tx, f, v) ==
  LET t == SetField(I2C_transaction_brief, tx, f, v)
  IN IF f # "addr" /\ (t[f] < 0 \/ t[f] > Len(tx.write)) THEN tx ELSE t
SetBrief(tx, f, v) == SetField(I2C_transaction_brief, tx, f, v)

\* g.f = v on a generic transaction: the one field changes, the bytes behind stay.
SetGeneric_resizing(g, f, v) ==
  LET t == SetField(I2C_transaction_generic, g, f, v)
  IN IF f = "n_write" /\ t.n_write >= 0 /\ t.n_write <= I2C_limit_brief
     THEN [t EXCEPT !.write = [j \in 1..t.n_write |->
                                 IF j <= Len(g.write) THEN g.write[j] ELSE 0]]
     ELSE t
SetGeneric(g, f, v) == SetField(I2C_transaction_generic, g, f, v)

\* table[i].tx = t: the transaction is a member of the entry, held by value.
SetTestTx_shared(table, i, t) == [j \in DOMAIN table |-> [table[j] EXCEPT !.tx = t]]
SetTestTx(table, i, t) == [table EXCEPT ![i].tx = t]

(***************************************************************************)
(* What the fields mean (the comments on the fields, lines 25-28, 33-36    *)
(* and 41-42).                                                             *)
(***************************************************************************)
\* The bytes of a brief transaction that are written to the device: n_write of
\* them, taken from the front of write.
Payload_whole(tx) == tx.write
Payload(tx) == [j \in 1..tx.n_write |-> tx.write[j]]

\* The generic transaction a brief transaction stands for.
AsGeneric(tx) ==
  [addr |-> tx.addr, n_write |-> tx.n_write, n_read |-> tx.n_read, write |-> Payload(tx)]

\* The bytes a test expects to receive: n_read of them, from the front of expect.
Expected_whole(t) == t.expect
Expected(t) == [j \in 1..t.tx.n_read |-> t.expect[j]]

\* The first n entries of buf exist.
PrefixInside(buf, n) == n >= 0 /\ (n = 0 \/ InBounds(buf, n - 1))

NoStore == [obj |-> "none", idx |-> 0, field |-> "none", raw |-> 0]

(***************************************************************************)
(* Initial states.                                                         *)
(***************************************************************************)
\* The translation unit before the header is read, for each build.
InitBuild ==
  /\ predef \in Predefined
  /\ macros = [I2C_limit_brief |-> predef, guard |-> 0]
  /\ pc = "ifndef"
  /\ cap = 0
  /\ gen = ZeroGeneric
  /\ src = ZeroBrief(0)
  /\ tests = [k \in TestIds |-> ZeroTest(0)]
  /\ copied = {}
  /\ last = NoStore
  /\ ops = 0

\* The program at start-up, built from a build that defines nothing itself: the
\* header has been read once and the objects are zeroed.
Init ==
  /\ predef = 0
  /\ macros = [I2C_limit_brief |-> Define_I2C_limit_brief(predef), guard |-> 1]
  /\ pc = "endif"
  /\ cap = macros.I2C_limit_brief
  /\ gen = ZeroGeneric
  /\ src = ZeroBrief(cap)
  /\ tests = [k \in TestIds |-> ZeroTest(cap)]
  /\ copied = {}
  /\ last = NoStore
  /\ ops = 0

values == <<gen, src, tests, copied, last, ops>>

(***************************************************************************)
(* Preprocessing of the header.                                            *)
(***************************************************************************)
\* Lines 7-8: #ifndef __I2CTEST_I2CTEST_H / #define __I2CTEST_I2CTEST_H 1
IncludeGuard ==
  /\ pc = "ifndef"
  /\ IF macros.guard # 0
     THEN pc' = "endif" /\ UNCHANGED macros
     ELSE pc' = "define" /\ macros' = [macros EXCEPT !.guard = 1]
  /\ UNCHANGED <<predef, cap, values>>

\* Line 18: #define I2C_limit_brief 16
DefineLimit ==
  /\ pc = "define"
  /\ \/ /\ macros' = [macros EXCEPT
                        !.I2C_limit_brief = Define_I2C_limit_brief(macros.I2C_limit_brief)]
        /\ pc' = "typedef"
     \/ /\ Conflicts(macros.I2C_limit_brief)
        /\ pc' = "rejected"
        /\ UNCHANGED macros
  /\ UNCHANGED <<predef, cap, values>>

\* Lines 21-43: the array type takes its size from the macro as it now stands,
\* and the objects of the translation unit are of the struct types.
DeclareTypes ==
  /\ pc = "typedef"
  /\ cap' = macros.I2C_limit_brief
  /\ gen' = ZeroGeneric
  /\ src' = ZeroBrief(cap')
  /\ tests' = [k \in TestIds |-> ZeroTest(cap')]
  /\ pc' = "endif"
  /\ UNCHANGED <<predef, macros, copied, last, ops>>

\* A second #include of the header in the same translation unit.
Reinclude ==
  /\ pc = "endif"
  /\ ops = 0
  /\ pc' = "ifndef"
  /\ UNCHANGED <<predef, macros, cap, values>>

(***************************************************************************)
(* Building values: stores, allocation, struct copy.                       *)
(***************************************************************************)
Ready == pc = "endif" /\ cap # 0 /\ ops < MaxOps

Stored(o, k, f, v) == [obj |-> o, idx |-> k, field |-> f, raw |-> v]

\* gen.f = v
StoreGeneric(f, v) ==
  /\ Ready
  /\ gen' = SetGeneric(gen, f, v)
  /\ last' = Stored("gen", 0, f, v)
  /\ ops' = ops + 1
  /\ UNCHANGED <<predef, macros, pc, cap, src, tests, copied>>

\* gen.write[i] = v, inside the bytes allocated
StoreGenericWrite(i, v) ==
  /\ Ready
  /\ InBounds(gen.write, i)
  /\ gen' = [gen EXCEPT !.write = SetElem(@, i, v)]
  /\ last' = Stored("gen", i, "write", v)
  /\ ops' = ops + 1
  /\ UNCHANGED <<predef, macros, pc, cap, src, tests, copied>>

\* gen = calloc(1, sizeof(struct I2C_transaction_generic) + n)
AllocGeneric(n) ==
  /\ Ready
  /\ gen' = [ZeroGeneric EXCEPT !.write = [j \in 1..n |-> 0]]
  /\ last' = NoStore
  /\ ops' = ops + 1
  /\ UNCHANGED <<predef, macros, pc, cap, src, tests, copied>>

\* src.f = v
StoreBrief(f, v) ==
  /\ Ready
  /\ src' = SetBrief(src, f, v)
  /\ last' = Stored("src", 0, f, v)
  /\ ops' = ops + 1
  /\ UNCHANGED <<predef, macros, pc, cap, gen, tests, copied>>

\* src.write[i] = v
StoreBriefWrite(i, v) ==
  /\ Ready
  /\ InBounds(src.write, i)
  /\ src' = [src EXCEPT !.write = SetElem(@, i, v)]
  /\ last' = Stored("src", i, "write", v)
  /\ ops' = ops + 1
  /\ UNCHANGED <<predef, macros, pc, cap, gen, tests, copied>>

\* tests[k].tx.f = v
StoreTestTx(k, f, v) ==
  /\ Ready
  /\ tests' = SetTestTx(tests, k, SetBrief(tests[k].tx, f, v))
  /\ copied' = copied \ {k}
  /\ last' = Stored("tests", k, f, v)
  /\ ops' = ops + 1
  /\ UNCHANGED <<predef, macros, pc, cap, gen, src>>

\* tests[k].tx.write[i] = v
StoreTestTxWrite(k, i, v) ==
  /\ Ready
  /\ InBounds(tests[k].tx.write, i)
  /\ tests' = SetTestTx(tests, k, [tests[k].tx EXCEPT !.write = SetElem(@, i, v)])
  /\ copied' = copied \ {k}
  /\ last' = Stored("tests", k, "write", v)
  /\ ops' = ops + 1
  /\ UNCHANGED <<predef, macros, pc, cap, gen, src>>

\* tests[k].expect[i] = v
StoreExpect(k, i, v) ==
  /\ Ready
  /\ InBounds(tests[k].expect, i)
  /\ tests' = [tests EXCEPT ![k].expect = SetElem(@, i, v)]
  /\ last' = Stored("tests", k, "expect", v)
  /\ ops' = ops + 1
  /\ UNCHANGED <<predef, macros, pc, cap, gen, src, copied>>

\* tests[k].tx = src
CopyTx(k) ==
  /\ Ready
  /\ tests' = SetTestTx(tests, k, src)
  /\ copied' = copied \cup {k}
  /\ last' = NoStore
  /\ ops' = ops + 1
  /\ UNCHANGED <<predef, macros, pc, cap, gen, src>>

(***************************************************************************)
(* Specifications.                                                         *)
(***************************************************************************)
\* The two transaction shapes: one generic and one brief transaction are built.
Next ==
  \/ \E f \in ScalarFields :
       \E v \in RawFor(I2C_transaction_generic, f, RawBytes, RawLengths) : StoreGeneric(f, v)
  \/ \E i \in RawIndices, v \in RawBytes : StoreGenericWrite(i, v)
  \/ \E n \in AllocSizes : AllocGeneric(n)
  \/ \E f \in ScalarFields :
       \E v \in RawFor(I2C_transaction_brief, f, RawBytes, RawLengths) : StoreBrief(f, v)
  \/ \E i \in RawIndices, v \in RawBytes : StoreBriefWrite(i, v)

Spec == Init /\ [][Next]_vars

\* The table of tests: entries are filled by stores and by copies of src.
NextTable ==
  \/ \E f \in ScalarFields :
       \E v \in RawFor(I2C_transaction_brief, f, TableBytes, TableLengths) : StoreBrief(f, v)
  \/ \E i \in TableIndices, v \in TableBytes : StoreBriefWrite(i, v)
  \/ \E k \in TestIds, f \in ScalarFields :
       \E v \in RawFor(I2C_transaction_brief, f, TableBytes, TableLengths) :
         StoreTestTx(k, f, v)
  \/ \E k \in TestIds, i \in TableIndices, v \in TableBytes : StoreTestTxWrite(k, i, v)
  \/ \E k \in TestIds, i \in TableIndices, v \in TableBytes : StoreExpect(k, i, v)
  \/ \E k \in TestIds : CopyTx(k)

SpecTable == Init /\ [][NextTable]_vars

\* The build: the header is preprocessed under each build's own definitions, and
\* the buffers of the objects it declares are then written.
NextBuild ==
  \/ IncludeGuard
  \/ DefineLimit
  \/ DeclareTypes
  \/ Reinclude
  \/ \E i \in RawIndices, v \in RawBytes : StoreBriefWrite(i, v)
  \/ \E k \in TestIds, i \in TableIndices, v \in TableBytes : StoreTestTxWrite(k, i, v)
  \/ \E k \in TestIds, i \in TableIndices, v \in TableBytes : StoreExpect(k, i, v)
  \/ \E k \in TestIds : CopyTx(k)

SpecBuild == InitBuild /\ [][NextBuild]_vars

(***************************************************************************)
(* Properties.                                                             *)
(***************************************************************************)
BriefTxs == {src} \cup {tests[k].tx : k \in TestIds}

LeadingFields(layout) == SubSeq(layout, 1, Len(layout) - 1)

LeadingNames(layout) == {layout[i].name : i \in 1..(Len(layout) - 1)}

DropPayload(layout, obj) == [f \in LeadingNames(layout) |-> obj[f]]

\* Record h is a value of the leading fields of the layout.
Expressible(layout, h) ==
  /\ DOMAIN h = LeadingNames(layout)
  /\ \A i \in 1..(Len(layout) - 1) : InType(layout[i].type, h[layout[i].name])

\* The object the last store went to.
Target(l) == IF l.obj = "gen" THEN gen ELSE IF l.obj = "src" THEN src ELSE tests[l.idx].tx

TargetLayout(l) == IF l.obj = "gen" THEN I2C_transaction_generic ELSE I2C_transaction_brief

\* C1: the generic and the brief transaction declare the same leading fields
\* (addr: byte, n_write: length, n_read: length), in that order, and then the
\* payload field write, stored differently; without the payload the two have the
\* same shape, and the leading fields of each are a value of the other's.
C1_SameLeadingFields ==
  /\ LeadingFields(I2C_transaction_generic) = LeadingFields(I2C_transaction_brief)
  /\ LeadingFields(I2C_transaction_generic) =
       << [name |-> "addr",    type |-> "I2C_byte"],
          [name |-> "n_write", type |-> "I2C_length"],
          [name |-> "n_read",  type |-> "I2C_length"] >>
  /\ Len(I2C_transaction_generic) = 4 /\ Len(I2C_transaction_brief) = 4
  /\ I2C_transaction_generic[4].name = "write" /\ I2C_transaction_brief[4].name = "write"
  /\ I2C_transaction_generic[4].type # I2C_transaction_brief[4].type
  /\ DOMAIN DropPayload(I2C_transaction_generic, gen)
       = DOMAIN DropPayload(I2C_transaction_brief, src)
  /\ Expressible(I2C_transaction_brief, DropPayload(I2C_transaction_generic, gen))
  /\ Expressible(I2C_transaction_generic, DropPayload(I2C_transaction_brief, src))

\* C1 witness: the same non-trivial triple held in both shapes, the payloads of
\* different sizes.
C1_Witness ==
  /\ gen.n_write = 17 /\ src.n_write = 17
  /\ DropPayload(I2C_transaction_generic, gen) = DropPayload(I2C_transaction_brief, src)
  /\ Len(gen.write) # Len(src.write)

C3_WriteCountWithinCapacity == \A tx \in BriefTxs : tx.n_write <= Len(tx.write)

\* C3 as amended: the write buffer of every brief transaction has exactly 16
\* entries whatever n_write is, n_write is any value of the length type, and the
\* first n_write entries lie inside the buffer exactly when 0 <= n_write <= 16.
C3_CapacityNotEnforced ==
  \A tx \in BriefTxs :
    /\ Len(tx.write) = I2C_limit_brief
    /\ tx.n_write \in I2C_length_range
    /\ PrefixInside(tx.write, tx.n_write) <=> tx.n_write \in 0..I2C_limit_brief

\* C3 witness: a brief transaction that holds n_write = 17 over its 16 entries.
C3_Witness ==
  /\ src.n_write = 17 /\ Len(src.write) = 16
  /\ last = Stored("src", 0, "n_write", 17)

C6_LengthEqualsCount == Len(gen.write) = gen.n_write

\* C6 as amended: the bytes behind a generic transaction are those the caller
\* allocated; n_write is a field of its own, and a store to it neither truncates
\* nor extends them.
C6_CountLeavesBytes ==
  [][ (last' # last /\ last'.obj = "gen" /\ last'.field = "n_write")
        => (gen'.write = gen.write /\ gen'.n_write = I2C_length(last'.raw)) ]_vars

\* C6 witness: two bytes allocated, and n_write then stored as 17.
C6_Witness ==
  /\ last = Stored("gen", 0, "n_write", 17)
  /\ gen.n_write = 17 /\ Len(gen.write) = 2

C8_NoValidation ==
  /\ (last.field \in ScalarFields
        /\ InType(FieldType(TargetLayout(last), last.field), last.raw))
       => Target(last)[last.field] = last.raw
  /\ Len(src.write) = cap
  /\ ops < MaxOps =>
       \A f \in ScalarFields :
         \A v \in RawFor(I2C_transaction_brief, f, RawBytes, RawLengths) :
           ENABLED StoreBrief(f, v)

\* C8 witness: a brief transaction with n_read = -1 and, stored last, n_write = 17.
C8_Witness ==
  /\ last = Stored("src", 0, "n_write", 17)
  /\ src.n_write = 17 /\ src.n_read = -1

\* C9: a step that changes the transaction of one table entry changes no other
\* entry, not that entry's expect buffer and not src; a step that changes src
\* changes no table entry, also not one that was copied from src.
C9_HeldByValue ==
  [][ /\ \A k \in TestIds :
           tests'[k].tx # tests[k].tx =>
             /\ \A m \in TestIds \ {k} : tests'[m] = tests[m]
             /\ tests'[k].expect = tests[k].expect
             /\ src' = src
      /\ src' # src => tests' = tests ]_vars

\* C9 witness: entry 1 was copied from src, src was stored to afterwards, and the
\* entry still holds what was copied.
C9_Witness ==
  /\ 1 \in copied
  /\ last.obj = "src"
  /\ tests[1].tx # src
  /\ tests[1].tx # ZeroBrief(cap)
  /\ tests[2] = ZeroTest(cap)

\* C10: every n_write and n_read is an integer in -32768..32767, and is the
\* value supplied reduced modulo 2^16 into that range.
C10_SixteenBitSigned ==
  /\ \A o \in {gen} \cup BriefTxs :
       o.n_write \in (-32768)..32767 /\ o.n_read \in (-32768)..32767
  /\ last.field \in {"n_write", "n_read"} =>
       (Target(last)[last.field] - last.raw) % 65536 = 0

\* C10 witness: the two ends of the range held in one transaction.
C10_Witness == gen.n_write = 32767 /\ gen.n_read = -32768

====
